---- MODULE Spec2Model ----
(***************************************************************************)
(* Model of the per-connection WebSocket runtime of maid (src/ws) and the  *)
(* chat maid handler (src/ws/maids/chat.ts): one socket, its single-slot   *)
(* work queue, the active LLM stream, the session/message tables the turns *)
(* write to, and the frames the server sends (Spec).                       *)
(* SpecKeys is the connection-key store of src/index.ts, SpecMemory one    *)
(* memory extraction run after another (src/memory/extraction.ts), and     *)
(* SpecQuery the two queries of the memory service (src/memory/index.ts),  *)
(* and SpecQueue the debounced extraction queue (src/memory/queue.ts) with *)
(* its backend jobs and workers; SpecQueueFair is SpecQueue without        *)
(* failures, under fair scheduling.                                        *)
(***************************************************************************)
EXTENDS Integers, Sequences, FiniteSets, TLC

\* ---------------------------------------------------------------- bounds
MaxMessages == 2   \* welcome, input and unparsable frames received on the socket
MaxDeltas == 1     \* text deltas one LLM stream emits
MaxKeys == 2       \* connection keys issued
MaxTicks == 3      \* clock steps of half a key lifetime
MaxActions == 2    \* memory actions one extraction run applies
MaxRuns == 1       \* extraction runs started
MaxMsgs == 2       \* rows of the messages table
MaxRows == 2       \* rows of the memories table the queries are run on
MaxWorkers == 2    \* jobs the queue's workers process at the same time
MaxOthers == 1     \* messages another socket persists
MaxList == 3       \* memory actions (or lines) in one LLM answer
MaxFacts == 2      \* facts of one run, and actions they are backfilled into

\* ------------------------------------------------------------- constants
NoSession == 0     \* state.session = null / sessionId = undefined
NoStream == 0      \* state.stream = null
UserId == "u1"     \* the user the socket was authenticated for
TurnIds == 1..MaxMessages
KeyIds == 1..MaxKeys
Users == {"u1", "u2"}
WS_CONNECTION_KEY_TTL_MS == 60000
HalfTtl == WS_CONNECTION_KEY_TTL_MS \div 2
THRESHOLD == 7                     \* 0.7, in tenths
TOP_K == 5
MEMORY_SERVICE_DEFAULT_LIMIT == 5
MEMORY_QUEUE_DEBOUNCE_DELAY_MS == 3000
HISTORY_LIMIT == 20                \* session.listRecentMessages(20, true)
MEMORY_QUEUE_ATTEMPTS == 3
MEMORY_QUEUE_BACKOFF_DELAY_MS == 1000
\* the clock of the queue advances in steps of one backoff delay
TickMs == MEMORY_QUEUE_BACKOFF_DELAY_MS
Kinds == {"welcome", "input"}
RunningPcs == {"ensure", "saveUser", "build", "streaming", "saveAsst"}

VARIABLES
  maidId,        \* ws.data.maidId
  sessionId,     \* ws.data.sessionId (NoSession = undefined)
  phase,         \* transport: "upgraded", "open", "closeCalled", "closed"
  state,         \* ws.data.state = {session, stream, closing}
  q,             \* ws.data.q: queued, not yet started tasks (turn ids)
  task,          \* per turn: kind, position of its handler, its locals
  streams,       \* per turn: status of the LLM stream the turn opened
  sent,          \* every frame handed to send(), in order
  closeCalls,    \* every code handed to ws.close(), in order
  dbSessions,    \* sessions table
  dbMessages,    \* messages table, in insertion order
  signalled,     \* turns that called enqueueMemoryExtraction
  nMsgs,         \* welcome, input and unparsable frames received so far
  discarded,     \* turns that were queued when an abort was handled
  abortedMid,    \* turns in progress past stream_start when an abort was handled
  lastOp,        \* the handler or step that ran last
  sendThrows     \* whether ws.sendText throws on this socket

\* the connection-key store of the HTTP entry point (src/index.ts)
VARIABLES
  wsConnectionKeys,  \* Map key -> {userId, sessionId, expiresAt}
  now,               \* Date.now(), in ms
  issued,            \* keys created so far (each key is a fresh UUID)
  keyOp,             \* the store operation that ran last, with its result
  returned           \* per key: how many consumes returned its data

\* the memory tables, one extraction run and the memory service's queries
VARIABLES
  memories,          \* memories table
  memSerial,         \* last value of the memories id sequence
  messages,          \* messages table as the extraction pipeline reads it
  run,               \* the extraction run in progress: position and locals
  runs,              \* extraction runs started so far
  queryResult        \* what the last memory-service query returned

\* the extraction queue: its backend jobs and what its callers observe
VARIABLES
  jobs,              \* jobs the queue backend holds
  since,             \* per user: ms since the signal that opened the
                     \* debounce window (saturating at the delay)
  windowRuns,        \* per user: runs started for jobs of the current window
  covered,           \* rows of messages persisted before a signal of their user
  enq                \* the last enqueue call and how it ended

\* the helpers of generateActions (src/memory/extraction.ts)
VARIABLES
  call               \* the last call of a helper: its arguments and result

wsVars == <<maidId, sessionId, phase, state, q, task, streams, sent, closeCalls,
            dbSessions, dbMessages, signalled, nMsgs, discarded,
            abortedMid, lastOp, sendThrows>>
keyVars == <<wsConnectionKeys, now, issued, keyOp, returned>>
memVars == <<memories, memSerial, messages, run, runs, queryResult>>

queueVars == <<jobs, since, windowRuns, covered, enq>>

fnVars == <<call>>

vars == <<wsVars, keyVars, memVars, queueVars, fnVars>>

\* the program's own state, without the observation variables
progVars == <<maidId, sessionId, phase, state, q, task, streams, sent,
              closeCalls, dbSessions, dbMessages, signalled>>

\* ------------------------------------------------------------- helpers
Frame(type, t, sid) == [type |-> type, turn |-> t, sid |-> sid]

NoTask == [kind |-> "none", pc |-> "none", created |-> FALSE,
           sess |-> NoSession, text |-> 0, err |-> "none"]

\* new PQueue({ concurrency: 1 })
ConcurrencyTwo == 1 + 1
Concurrency == 1

\* streamSocketHandlersByMaidId
findAnyHandler(m) == TRUE
findStreamSocketHandler(m) == m \in {"cli", "chat"}

Running == {t \in TurnIds : task[t].pc \in RunningPcs}

MaxOf(S) == CHOOSE x \in S : \A y \in S : y <= x
NextSessionId == MaxOf({s.id : s \in dbSessions}) + 1

\* getOwnedSession: the row with this id and this userId, if any
getAnySession(id) == \E s \in dbSessions : s.id = id
getOwnedSession(id) == \E s \in dbSessions : s.id = id /\ s.userId = UserId

\* ensureSession: the cached session short-circuits the lookup
HasSessionNever(st) == FALSE
HasSession(st) == st.session # NoSession

\* ensureSession: created = ws.data.sessionId === undefined
CreatedAlways(sid) == TRUE
CreatedFlag(sid) == sid = NoSession

\* respondWithStream: only onInput passes saveUserMessage
SavesUserAlways(kind) == TRUE
SavesUserMessage(kind) == kind = "input"

AfterEnsure(kind) == IF SavesUserMessage(kind) THEN "saveUser" ELSE "build"

\* the synchronous head of a queued task: onWelcome/onInput up to the first
\* pending I/O of respondWithStream
StartTask(kind) ==
  IF HasSession(state)
    THEN [NoTask EXCEPT !.kind = kind, !.pc = AfterEnsure(kind),
                        !.created = FALSE, !.sess = state.session]
    ELSE [NoTask EXCEPT !.kind = kind, !.pc = "ensure",
                        !.created = CreatedFlag(sessionId)]

\* q.clear()
ClearKeeps(queue) == queue
ClearQueue(queue) == <<>>

SeqToSet(s) == {s[i] : i \in 1..Len(s)}

\* ------------------------------------------- the other subsystems at rest
\* const wsConnectionKeys = new Map()
KeysInit ==
  /\ wsConnectionKeys = [k \in {} |-> 0]
  /\ now = 0
  /\ issued = 0
  /\ keyOp = [op |-> "init", key |-> 0, result |-> {}]
  /\ returned = [k \in KeyIds |-> 0]

\* ExtractionResult as extractMemory creates it
ZeroStats == [factsExtracted |-> 0, memoriesAdded |-> 0, memoriesUpdated |-> 0,
              memoriesDeleted |-> 0, memoriesUnchanged |-> 0]
\* no extraction run in progress; seen is the length of the messages table
\* when the snapshot was read, late the messages persisted while the run
\* was in progress
NoRun == [pc |-> "idle", userId |-> "none", ids |-> {}, facts |-> {},
          idMap |-> {}, left |-> 0, tx |-> {}, before |-> {},
          committed |-> FALSE, failedAt |-> "none", out |-> ZeroStats,
          seen |-> 0, late |-> {}]
NoResult == [op |-> "none", userId |-> "none", rows |-> {},
             e |-> 0, threshold |-> 0, limit |-> 0]

\* no job in the queue backend, no signal yet
NoEnqueue == [backend |-> [rejects |-> FALSE, isError |-> FALSE, message |-> {}],
              outcome |-> "none"]
\* no helper called yet
NoCall == [fn |-> "none"]
FnIdle == call = NoCall

QueueIdle ==
  /\ jobs = {}
  /\ since = [u \in Users |-> MEMORY_QUEUE_DEBOUNCE_DELAY_MS]
  /\ windowRuns = [u \in Users |-> 0]
  /\ covered = {}
  /\ enq = NoEnqueue

\* empty memory tables, nothing running
MemIdle ==
  /\ memories = {}
  /\ memSerial = 0
  /\ messages = <<>>
  /\ run = NoRun
  /\ runs = 0
  /\ queryResult = NoResult

\* ------------------------------------------------------------------ Init
\* the session rows that exist when the socket is opened
InitialSessions == {[id |-> 1, userId |-> UserId], [id |-> 2, userId |-> "u2"]}

\* createStreamSocketData for an upgraded request, and the session rows of
\* two users
WsInit ==
  /\ maidId \in {"chat", "nonexistent"}
  /\ sessionId \in {NoSession, 1, 2, 3}
  /\ phase = "upgraded"
  /\ state = [session |-> NoSession, stream |-> NoStream, closing |-> FALSE]
  /\ q = <<>>
  /\ task = [t \in TurnIds |-> NoTask]
  /\ streams = [t \in TurnIds |-> "none"]
  /\ sent = <<>>
  /\ closeCalls = <<>>
  /\ dbSessions = InitialSessions
  /\ dbMessages = <<>>
  /\ signalled = {}
  /\ nMsgs = 0
  /\ discarded = {}
  /\ abortedMid = {}
  /\ lastOp = "init"
  /\ sendThrows = FALSE

Init == WsInit /\ KeysInit /\ MemIdle /\ QueueIdle /\ FnIdle

\* ------------------------------------------------- runtime primitives
\* ws.close(code, reason): the first call starts the closing handshake
PhaseAfterClose == IF phase \in {"upgraded", "open"} THEN "closeCalled" ELSE phase

\* abortCurrentStream: stream.abort(); ws.data.state.stream = null
AbortNotCalled == streams
AbortedStreams ==
  IF state.stream = NoStream THEN streams
  ELSE [streams EXCEPT ![state.stream] = "aborted"]

\* cancelInFlightWork on the task table: tasks dropped by q.clear() never start
ClearedTasks ==
  [t \in TurnIds |->
     IF t \in SeqToSet(q) \ SeqToSet(ClearQueue(q))
       THEN [task[t] EXCEPT !.pc = "cleared"]
       ELSE task[t]]

\* cancelInFlightWork: ws.data.q.clear(); abortCurrentStream(ws)
cancelInFlightWork(closingNow) ==
  /\ q' = ClearQueue(q)
  /\ task' = ClearedTasks
  /\ streams' = AbortedStreams
  /\ state' = [state EXCEPT !.stream = NoStream, !.closing = closingNow]

\* withMaid failing: send error, ws.close(1008, 'unknown maid')
UnknownMaid ==
  /\ sent' = Append(sent, Frame("error", 0, NoSession))
  /\ closeCalls' = Append(closeCalls, 1008)
  /\ phase' = PhaseAfterClose
  /\ UNCHANGED <<state, q, task, streams>>

\* ------------------------------------------------- socket event handlers
\* open(ws): withMaid(ws)
Open ==
  /\ phase = "upgraded"
  /\ IF findStreamSocketHandler(maidId)
       THEN /\ phase' = "open"
            /\ UNCHANGED <<state, q, task, streams, sent, closeCalls>>
       ELSE UnknownMaid
  /\ lastOp' = "open"
  /\ UNCHANGED <<keyVars, memVars, queueVars, fnVars, sendThrows>>
  /\ UNCHANGED <<maidId, sessionId, dbSessions, dbMessages, signalled, nMsgs,
                 discarded, abortedMid>>

\* message(ws, raw) with a frame that fails JSON.parse or clientMessage.parse
RecvInvalidCloses ==
  /\ phase = "open"
  /\ nMsgs < MaxMessages
  /\ nMsgs' = nMsgs + 1
  /\ UnknownMaid
  /\ lastOp' = "invalid"
  /\ UNCHANGED <<keyVars, memVars, queueVars, fnVars, sendThrows>>
  /\ UNCHANGED <<maidId, sessionId, dbSessions, dbMessages, signalled,
                 discarded, abortedMid>>
RecvInvalid ==
  /\ phase = "open"
  /\ nMsgs < MaxMessages
  /\ nMsgs' = nMsgs + 1
  /\ sent' = Append(sent, Frame("error", 0, NoSession))
  /\ task' = [task EXCEPT ![nMsgs + 1].kind = "invalid"]
  /\ lastOp' = "invalid"
  /\ UNCHANGED <<keyVars, memVars, queueVars, fnVars, sendThrows>>
  /\ UNCHANGED <<maidId, sessionId, phase, state, q, streams, closeCalls,
                 dbSessions, dbMessages, signalled, discarded, abortedMid>>

\* message(ws, raw) with welcome or input: q.add(task). With a free slot the
\* queue starts the task at once, otherwise it waits in q.
RecvTurn(kind) ==
  /\ phase = "open"
  /\ nMsgs < MaxMessages
  /\ nMsgs' = nMsgs + 1
  /\ IF ~findStreamSocketHandler(maidId)
       THEN UnknownMaid
       ELSE LET t == nMsgs + 1
                fresh == [NoTask EXCEPT !.kind = kind, !.pc = "queued"]
            IN /\ IF Cardinality(Running) < Concurrency /\ q = <<>>
                    THEN /\ task' = [task EXCEPT ![t] = StartTask(kind)]
                         /\ q' = q
                    ELSE /\ task' = [task EXCEPT ![t] = fresh]
                         /\ q' = Append(q, t)
               /\ UNCHANGED <<state, streams, sent, closeCalls, phase>>
  /\ lastOp' = kind
  /\ UNCHANGED <<keyVars, memVars, queueVars, fnVars, sendThrows>>
  /\ UNCHANGED <<maidId, sessionId, dbSessions, dbMessages, signalled,
                 discarded, abortedMid>>

\* message(ws, raw) with abort: cancelInFlightWork(ws)
RecvAbort ==
  /\ phase = "open"
  /\ IF ~findStreamSocketHandler(maidId)
       THEN UnknownMaid /\ UNCHANGED <<discarded, abortedMid>>
       ELSE /\ cancelInFlightWork(state.closing)
            /\ discarded' = discarded \cup SeqToSet(q)
            /\ abortedMid' = abortedMid \cup
                 {t \in TurnIds : task[t].pc \in {"streaming", "saveAsst"}}
            /\ UNCHANGED <<sent, closeCalls, phase>>
  /\ lastOp' = "abort"
  /\ UNCHANGED <<keyVars, memVars, queueVars, fnVars, sendThrows>>
  /\ UNCHANGED <<maidId, sessionId, dbSessions, dbMessages, signalled, nMsgs>>

\* message(ws, raw) with bye: closeConnectionWork(ws); ws.close(1000, 'bye')
RecvBye ==
  /\ phase = "open"
  /\ IF ~findStreamSocketHandler(maidId)
       THEN UnknownMaid
       ELSE /\ cancelInFlightWork(TRUE)
            /\ closeCalls' = Append(closeCalls, 1000)
            /\ phase' = PhaseAfterClose
            /\ sent' = sent
  /\ lastOp' = "bye"
  /\ UNCHANGED <<keyVars, memVars, queueVars, fnVars, sendThrows>>
  /\ UNCHANGED <<maidId, sessionId, dbSessions, dbMessages, signalled, nMsgs,
                 discarded, abortedMid>>

\* close(ws): closeConnectionWork(ws), on the transport closing
Close ==
  /\ phase \in {"open", "closeCalled"}
  /\ cancelInFlightWork(TRUE)
  /\ phase' = "closed"
  /\ lastOp' = "close"
  /\ UNCHANGED <<keyVars, memVars, queueVars, fnVars, sendThrows>>
  /\ UNCHANGED <<maidId, sessionId, sent, closeCalls, dbSessions, dbMessages,
                 signalled, nMsgs, discarded, abortedMid>>

\* ------------------------------------------------- the queued handler
\* the task of turn t settles with position pc, rejected with err or
\* resolved (err "none"): the queue starts the next queued task, if any, in
\* the slot that became free
SettleKeeps(t, pc, err) ==
  /\ task' = [task EXCEPT ![t].pc = pc, ![t].err = err]
  /\ q' = q
Settle(t, pc, err) ==
  IF q # <<>> /\ Cardinality(Running \ {t}) < Concurrency
    THEN /\ task' = [task EXCEPT ![t].pc = pc, ![t].err = err,
                                 ![Head(q)] = StartTask(task[Head(q)].kind)]
         /\ q' = Tail(q)
    ELSE /\ task' = [task EXCEPT ![t].pc = pc, ![t].err = err]
         /\ q' = q

\* send(ws, msg): try { ws.sendText(...); return true } catch { return
\* false }: the caller goes on whether or not sendText threw
sendRethrows == ~sendThrows
sendReturns == TRUE

\* the .catch of q.add(...): which rejections send nothing
SuppressedNever(err) == FALSE
SuppressedAbortOnly(err) == err = "StreamAbortedError"
Suppressed(err) == err = "StreamAbortedError" \/ state.closing

\* the .catch of q.add(...): only SessionNotFoundError closes the socket
ClosesOnAny(err) == TRUE
ClosesOn(err) == err = "SessionNotFoundError"

\* the handler of turn t rejects with err: the .catch of q.add(...) runs
Catch(t, err) ==
  /\ IF Suppressed(err)
       THEN UNCHANGED <<sent, closeCalls, phase>>
       ELSE /\ sent' = Append(sent, Frame("error", t, NoSession))
            /\ IF ClosesOn(err)
                 THEN /\ closeCalls' = Append(closeCalls, 1008)
                      /\ phase' = PhaseAfterClose
                 ELSE UNCHANGED <<closeCalls, phase>>
  /\ Settle(t, IF err = "StreamAbortedError" THEN "aborted" ELSE "failed", err)

\* ensureSession: sessionService.ensure(ws.data.sessionId) resolves
EnsureDone(t) ==
  /\ task[t].pc = "ensure"
  /\ sessionId # NoSession => getOwnedSession(sessionId)
  /\ LET sid == IF sessionId # NoSession THEN sessionId ELSE NextSessionId
     IN /\ dbSessions' = IF sessionId # NoSession THEN dbSessions
                         ELSE dbSessions \cup {[id |-> sid, userId |-> UserId]}
        /\ state' = [state EXCEPT !.session = sid]
        /\ task' = [task EXCEPT ![t].sess = sid,
                                ![t].pc = AfterEnsure(task[t].kind)]
        /\ sent' = IF task[t].created
                     THEN Append(sent, Frame("session_created", t, sid))
                     ELSE sent
  /\ lastOp' = "ensure"
  /\ UNCHANGED <<keyVars, memVars, queueVars, fnVars, sendThrows>>
  /\ UNCHANGED <<maidId, sessionId, phase, q, streams, closeCalls, dbMessages,
                 signalled, nMsgs, discarded, abortedMid>>

\* ensureSession: sessionService.ensure rejects (no owned row, or the store fails)
EnsureFails(t) ==
  /\ task[t].pc = "ensure"
  /\ \E err \in {"SessionNotFoundError", "Error"} :
       /\ err = "SessionNotFoundError" =>
            (sessionId # NoSession /\ ~getOwnedSession(sessionId))
       /\ err = "Error" =>
            (sessionId = NoSession \/ getOwnedSession(sessionId))
       /\ Catch(t, err)
  /\ lastOp' = "ensureFails"
  /\ UNCHANGED <<keyVars, memVars, queueVars, fnVars, sendThrows>>
  /\ UNCHANGED <<maidId, sessionId, state, streams, dbSessions, dbMessages,
                 signalled, nMsgs, discarded, abortedMid>>

\* respondWithStream: session.saveMessage(options.saveUserMessage) resolves
SaveUser(t) ==
  /\ task[t].pc = "saveUser"
  /\ dbMessages' = Append(dbMessages,
       [sessionId |-> task[t].sess, role |-> "user", turn |-> t,
        content |-> 1])
  /\ task' = [task EXCEPT ![t].pc = "build"]
  /\ lastOp' = "saveUser"
  /\ UNCHANGED <<keyVars, memVars, queueVars, fnVars, sendThrows>>
  /\ UNCHANGED <<maidId, sessionId, phase, state, q, streams, sent, closeCalls,
                 dbSessions, signalled, nMsgs, discarded, abortedMid>>

\* respondWithStream: session.saveMessage(options.saveUserMessage) rejects
SaveUserFails(t) ==
  /\ task[t].pc = "saveUser"
  /\ Catch(t, "Error")
  /\ lastOp' = "saveUserFails"
  /\ UNCHANGED <<keyVars, memVars, queueVars, fnVars, sendThrows>>
  /\ UNCHANGED <<maidId, sessionId, state, streams, dbSessions, dbMessages,
                 signalled, nMsgs, discarded, abortedMid>>

\* respondWithStream: buildInput resolves; stream_start is sent and
\* streamAndSendAssistantResponse opens the stream and stores it in state
OpenStream(t) ==
  /\ task[t].pc = "build"
  /\ IF sendReturns
       THEN /\ sent' = Append(sent, Frame("stream_start", t, NoSession))
            /\ streams' = [streams EXCEPT ![t] = "active"]
            /\ state' = [state EXCEPT !.stream = t]
            /\ task' = [task EXCEPT ![t].pc = "streaming"]
            /\ UNCHANGED <<phase, q, closeCalls>>
       ELSE /\ Catch(t, "Error")
            /\ UNCHANGED <<streams, state>>
  /\ lastOp' = "openStream"
  /\ UNCHANGED <<keyVars, memVars, queueVars, fnVars, sendThrows>>
  /\ UNCHANGED <<maidId, sessionId, dbSessions, dbMessages, signalled,
                 nMsgs, discarded, abortedMid>>

\* respondWithStream: buildInput rejects
BuildFails(t) ==
  /\ task[t].pc = "build"
  /\ Catch(t, "Error")
  /\ lastOp' = "buildFails"
  /\ UNCHANGED <<keyVars, memVars, queueVars, fnVars, sendThrows>>
  /\ UNCHANGED <<maidId, sessionId, state, streams, dbSessions, dbMessages,
                 signalled, nMsgs, discarded, abortedMid>>

\* streamAndSendAssistantResponse: 'response.output_text.delta'
Delta(t) ==
  /\ streams[t] = "active"
  /\ task[t].text < MaxDeltas
  /\ task' = [task EXCEPT ![t].text = @ + 1]
  /\ sent' = Append(sent, Frame("stream_text_delta", t, NoSession))
  /\ lastOp' = "delta"
  /\ UNCHANGED <<keyVars, memVars, queueVars, fnVars, sendThrows>>
  /\ UNCHANGED <<maidId, sessionId, phase, state, q, streams, closeCalls,
                 dbSessions, dbMessages, signalled, nMsgs, discarded,
                 abortedMid>>

\* streamAndSendAssistantResponse: 'response.completed' resolves the promise,
\* finally clears state.stream; the assistant saveMessage is started
Completed(t) ==
  /\ streams[t] = "active"
  /\ streams' = [streams EXCEPT ![t] = "completed"]
  /\ state' = [state EXCEPT !.stream = NoStream]
  /\ task' = [task EXCEPT ![t].pc = "saveAsst"]
  /\ lastOp' = "completed"
  /\ UNCHANGED <<keyVars, memVars, queueVars, fnVars, sendThrows>>
  /\ UNCHANGED <<maidId, sessionId, phase, q, sent, closeCalls, dbSessions,
                 dbMessages, signalled, nMsgs, discarded, abortedMid>>

\* streamAndSendAssistantResponse: 'error' rejects the promise, finally
\* clears state.stream, the handler rejects
StreamErrorResolves(t) ==
  /\ streams[t] = "active"
  /\ streams' = [streams EXCEPT ![t] = "errored"]
  /\ state' = [state EXCEPT !.stream = NoStream]
  /\ task' = [task EXCEPT ![t].pc = "saveAsst"]
  /\ lastOp' = "streamError"
  /\ UNCHANGED <<keyVars, memVars, queueVars, fnVars, sendThrows>>
  /\ UNCHANGED <<maidId, sessionId, phase, q, sent, closeCalls, dbSessions,
                 dbMessages, signalled, nMsgs, discarded, abortedMid>>
StreamError(t) ==
  /\ streams[t] = "active"
  /\ streams' = [streams EXCEPT ![t] = "errored"]
  /\ state' = [state EXCEPT !.stream = NoStream]
  /\ Catch(t, "Error")
  /\ lastOp' = "streamError"
  /\ UNCHANGED <<keyVars, memVars, queueVars, fnVars, sendThrows>>
  /\ UNCHANGED <<maidId, sessionId, dbSessions, dbMessages, signalled, nMsgs,
                 discarded, abortedMid>>

\* the aborted stream rejects the pending promise with StreamAbortedError
StreamAborted(t) ==
  /\ task[t].pc = "streaming"
  /\ streams[t] = "aborted"
  /\ state' = [state EXCEPT !.stream = NoStream]
  /\ Catch(t, "StreamAbortedError")
  /\ lastOp' = "streamAborted"
  /\ UNCHANGED <<keyVars, memVars, queueVars, fnVars, sendThrows>>
  /\ UNCHANGED <<maidId, sessionId, streams, dbSessions, dbMessages, signalled,
                 nMsgs, discarded, abortedMid>>

\* streamedText.trim(): a text is the number of deltas it was built from,
\* each delta one visible character, so trimming removes nothing
trim(text) == text

\* respondWithStream: the assistant saveMessage resolves; stream_done is
\* sent and memory extraction is signalled
SaveAssistant(t) ==
  /\ task[t].pc = "saveAsst"
  /\ dbMessages' = Append(dbMessages,
       [sessionId |-> task[t].sess, role |-> "assistant", turn |-> t,
        content |-> trim(task[t].text)])
  /\ IF sendReturns
       THEN /\ sent' = Append(sent, Frame("stream_done", t, task[t].sess))
            /\ signalled' = signalled \cup {t}
            /\ Settle(t, "done", "none")
            /\ UNCHANGED <<phase, closeCalls>>
       ELSE /\ Catch(t, "Error")
            /\ UNCHANGED signalled
  /\ lastOp' = "saveAssistant"
  /\ UNCHANGED <<keyVars, memVars, queueVars, fnVars, sendThrows>>
  /\ UNCHANGED <<maidId, sessionId, state, streams, dbSessions, nMsgs,
                 discarded, abortedMid>>

\* respondWithStream: the assistant saveMessage rejects
SaveAssistantFails(t) ==
  /\ task[t].pc = "saveAsst"
  /\ Catch(t, "Error")
  /\ lastOp' = "saveAssistantFails"
  /\ UNCHANGED <<keyVars, memVars, queueVars, fnVars, sendThrows>>
  /\ UNCHANGED <<maidId, sessionId, state, streams, dbSessions, dbMessages,
                 signalled, nMsgs, discarded, abortedMid>>

\* ------------------------------------------------------------------ Next
Next ==
  \/ Open
  \/ RecvInvalid
  \/ \E kind \in Kinds : RecvTurn(kind)
  \/ RecvAbort
  \/ RecvBye
  \/ Close
  \/ \E t \in TurnIds : EnsureDone(t)
  \/ \E t \in TurnIds : EnsureFails(t)
  \/ \E t \in TurnIds : SaveUser(t)
  \/ \E t \in TurnIds : SaveUserFails(t)
  \/ \E t \in TurnIds : OpenStream(t)
  \/ \E t \in TurnIds : BuildFails(t)
  \/ \E t \in TurnIds : Delta(t)
  \/ \E t \in TurnIds : Completed(t)
  \/ \E t \in TurnIds : StreamError(t)
  \/ \E t \in TurnIds : StreamAborted(t)
  \/ \E t \in TurnIds : SaveAssistant(t)
  \/ \E t \in TurnIds : SaveAssistantFails(t)

Spec == Init /\ [][Next]_vars

\* ------------------------------------------------------ observations
FramesOf(type, t) ==
  {i \in DOMAIN sent : sent[i].type = type /\ sent[i].turn = t}
FramesOfType(type) == {i \in DOMAIN sent : sent[i].type = type}
MessagesOf(role, t) ==
  {i \in DOMAIN dbMessages : dbMessages[i].role = role /\ dbMessages[i].turn = t}
Settled == {"done", "failed", "aborted", "cleared"}

\* C1: welcome/input are handled in receive order and never concurrently:
\* a turn has left the queue only if every earlier turn has settled, at most
\* one handler runs, and the frames of turn N all precede those of turn N+1.
C1_TurnOrder ==
  /\ Cardinality(Running) <= 1
  /\ \A a, b \in TurnIds :
       (a < b /\ task[a].kind \in Kinds
          /\ task[b].pc \in RunningPcs \cup {"done", "failed", "aborted"})
          => task[a].pc \in Settled
  /\ \A j \in DOMAIN sent :
       sent[j].turn > 0 => \A i \in 1..(j - 1) : sent[i].turn <= sent[j].turn

C1_Witness ==
  /\ FramesOf("stream_done", 1) # {}
  /\ FramesOf("stream_start", 2) # {}

\* C2: an abort handled after a turn's stream_start and before its
\* stream_done means no stream_done and no assistant message for that turn,
\* while the user message of an input turn stays persisted.
C2_AbortStopsTurn ==
  \A t \in abortedMid :
    /\ FramesOf("stream_done", t) = {}
    /\ MessagesOf("assistant", t) = {}
    /\ task[t].kind = "input" => MessagesOf("user", t) # {}

\* C3: every stream_done has exactly one stream_start of its turn before it,
\* the deltas of the turn lie between the two, and no frame of a later turn
\* lies between them.
C3_StreamFraming ==
  \A j \in FramesOfType("stream_done") :
    LET t == sent[j].turn
        starts == FramesOf("stream_start", t)
    IN /\ Cardinality(starts) = 1
       /\ \A i \in starts :
            /\ i < j
            /\ \A k \in FramesOf("stream_text_delta", t) : i < k /\ k < j
            /\ \A k \in i..j : sent[k].turn <= t

C3_Witness ==
  \E j \in FramesOfType("stream_done") :
    /\ sent[j].turn = 2
    /\ FramesOf("stream_text_delta", 2) # {}
    /\ FramesOf("stream_done", 1) # {}

\* C4: at most one LLM stream of the socket is active (opened and neither
\* completed, errored nor aborted).
C4_OneActiveStream ==
  Cardinality({t \in TurnIds : streams[t] = "active"}) <= 1

C4_Witness ==
  \E a, b \in TurnIds :
    a # b /\ streams[a] = "active" /\ streams[b] \in {"completed", "aborted", "errored"}

\* C5: session_created is sent at most once on the socket, and before the
\* stream_start of the turn that created the session.
C5_SessionCreatedOnce ==
  /\ Cardinality(FramesOfType("session_created")) <= 1
  /\ \A i \in FramesOfType("session_created") :
       \A j \in FramesOf("stream_start", sent[i].turn) : i < j

C5_Witness ==
  /\ \E i \in FramesOfType("session_created") :
       FramesOf("stream_start", sent[i].turn) # {}
  /\ FramesOf("stream_done", 2) # {}

\* C6: on a socket opened with a sessionId no session_created is sent and
\* every stream_done carries that sessionId.
C6_ExistingSession ==
  sessionId # NoSession =>
    /\ FramesOfType("session_created") = {}
    /\ \A j \in FramesOfType("stream_done") : sent[j].sid = sessionId

C6_Witness ==
  /\ sessionId # NoSession
  /\ FramesOf("stream_done", 1) # {}
  /\ FramesOf("stream_done", 2) # {}

\* C7: a turn that reached stream_done persisted exactly one assistant
\* message and, if it is an input turn, exactly one user message (none if it
\* is a welcome turn), all in the session stream_done carries.
C7_TurnPersistence ==
  \A j \in FramesOfType("stream_done") :
    LET t == sent[j].turn
    IN /\ Cardinality(MessagesOf("assistant", t)) = 1
       /\ Cardinality(MessagesOf("user", t)) =
            (IF task[t].kind = "input" THEN 1 ELSE 0)
       /\ \A i \in MessagesOf("assistant", t) \cup MessagesOf("user", t) :
            dbMessages[i].sessionId = sent[j].sid

C7_Witness ==
  \E a, b \in TurnIds :
    /\ task[a].kind = "input" /\ FramesOf("stream_done", a) # {}
    /\ task[b].kind = "welcome" /\ FramesOf("stream_done", b) # {}

C9_QueuedDiscarded ==
  \A t \in discarded :
    /\ task[t].pc = "cleared"
    /\ streams[t] = "none"
    /\ \A i \in DOMAIN sent : sent[i].turn # t
    /\ \A i \in DOMAIN dbMessages : dbMessages[i].turn # t

C9_Witness ==
  /\ discarded # {}
  /\ Running = {}
  /\ \E t \in TurnIds : task[t].pc = "aborted"

\* C10: after bye or transport close was handled closing is true, nothing is
\* queued, the active stream had abort() called and state.stream is null;
\* bye also calls ws.close(1000) and sends no frame.
C10_CloseWork ==
  /\ [](lastOp \in {"bye", "close"} =>
          /\ state.closing
          /\ q = <<>>
          /\ \A t \in TurnIds : task[t].pc # "queued"
          /\ state.stream = NoStream
          /\ \A t \in TurnIds : streams[t] # "active")
  /\ [][lastOp' \in {"bye", "close"} /\ state.stream # NoStream =>
          streams'[state.stream] = "aborted"]_vars
  /\ [][lastOp' = "bye" =>
          closeCalls' = Append(closeCalls, 1000) /\ sent' = sent]_vars

C10_Witness ==
  /\ lastOp = "close"
  /\ closeCalls = <<1000>>
  /\ abortedMid = {}
  /\ \E t \in TurnIds : streams[t] = "aborted"
  /\ \E t \in TurnIds : task[t].pc = "cleared"

\* C11: a welcome/input handler that fails while the socket is not closing
\* gets an error frame; the socket is closed with 1008 exactly when the
\* failure is SessionNotFoundError, and is left alone for any other failure,
\* also on a connection opened with a sessionId.
C11_FailureFrames ==
  [][\A t \in TurnIds :
       task[t].pc \in RunningPcs /\ task'[t].pc = "failed" /\ ~state.closing =>
         /\ sent' = Append(sent, Frame("error", t, NoSession))
         /\ IF task'[t].err = "SessionNotFoundError"
              THEN closeCalls' = Append(closeCalls, 1008) /\ phase' # "open"
              ELSE closeCalls' = closeCalls /\ phase' = phase]_vars

C11_Witness ==
  /\ sessionId # NoSession
  /\ phase = "open"
  /\ closeCalls = <<>>
  /\ \E t \in TurnIds :
       /\ task[t].pc = "failed"
       /\ task[t].err = "Error"
       /\ FramesOf("error", t) # {}

\* C12: a welcome/input handler that fails while closing is true sends no
\* frame and closes nothing; its cleanup still runs (the stream slot is
\* released and the handler leaves the queue's running slot).
C12_ClosingQuiet ==
  [][\A t \in TurnIds :
       task[t].pc \in RunningPcs /\ task'[t].pc = "failed" /\ state.closing =>
         /\ sent' = sent
         /\ closeCalls' = closeCalls
         /\ state'.stream # t
         /\ task'[t].pc \notin RunningPcs]_vars

C12_Witness ==
  /\ state.closing
  /\ \E t \in TurnIds :
       /\ task[t].pc = "failed"
       /\ task[t].err = "Error"
       /\ FramesOf("error", t) = {}

C14_ParseError ==
  [][lastOp' = "invalid" =>
       /\ sent' = Append(sent, Frame("error", 0, NoSession))
       /\ q' = q
       /\ \A t \in TurnIds : task'[t].pc = task[t].pc
       /\ closeCalls' = closeCalls
       /\ phase' = phase
       /\ state' = state
       /\ UNCHANGED <<streams, dbSessions, dbMessages, signalled>>]_vars

C14_Witness ==
  /\ lastOp = "invalid"
  /\ phase = "open"
  /\ closeCalls = <<>>
  /\ Running # {}
  /\ sent[Len(sent)] = Frame("error", 0, NoSession)

C17_Ensure ==
  /\ [][lastOp' = "ensure" =>
          IF sessionId # NoSession
            THEN /\ \E s \in dbSessions : s.id = sessionId /\ s.userId = UserId
                 /\ dbSessions' = dbSessions
                 /\ state'.session = sessionId
            ELSE \E s \in dbSessions' :
                   /\ s \notin dbSessions
                   /\ dbSessions' = dbSessions \cup {s}
                   /\ s.userId = UserId
                   /\ \A o \in dbSessions : o.id # s.id
                   /\ state'.session = s.id]_vars
  /\ [][\A t \in TurnIds :
          /\ task[t].pc = "ensure" /\ task'[t].pc # "ensure"
          /\ sessionId # NoSession
          /\ ~\E s \in dbSessions : s.id = sessionId /\ s.userId = UserId
          => /\ task'[t].err = "SessionNotFoundError"
             /\ dbSessions' = dbSessions
             /\ state'.session = NoSession]_vars
  /\ [][lastOp' = "ensureFails" => dbSessions' = dbSessions]_vars

C17_Witness ==
  /\ sessionId = 2
  /\ dbSessions = {[id |-> 1, userId |-> UserId], [id |-> 2, userId |-> "u2"]}
  /\ state.session = NoSession
  /\ \E t \in TurnIds :
       task[t].pc = "failed" /\ task[t].err = "SessionNotFoundError"

\* C27: every persisted assistant message has a text that is non-empty
\* after trimming.
C27_NonEmptyAssistant ==
  \A i \in DOMAIN dbMessages :
    dbMessages[i].role = "assistant" => dbMessages[i].content > 0

\* sessions this socket created: the rows that Init did not hold
CreatedSessions == dbSessions \ InitialSessions

\* C29: on a socket opened without a sessionId at most one session is
\* created, and every message its turns persist belongs to that session.
C29_OneSession ==
  sessionId = NoSession =>
    /\ Cardinality(CreatedSessions) <= 1
    /\ \A i \in DOMAIN dbMessages :
         \E s \in CreatedSessions : dbMessages[i].sessionId = s.id

\* two turns of such a socket have both persisted their assistant message
C29_Witness ==
  /\ sessionId = NoSession
  /\ \E a, b \in TurnIds :
       a # b /\ MessagesOf("assistant", a) # {} /\ MessagesOf("assistant", b) # {}

\* the pending I/O of a running handler settles: the session lookup, the
\* saves and the prompt building resolve or reject, the LLM stream emits
\* its next event
Step(t) ==
  \/ EnsureDone(t) \/ EnsureFails(t)
  \/ SaveUser(t) \/ SaveUserFails(t)
  \/ OpenStream(t) \/ BuildFails(t)
  \/ Delta(t) \/ Completed(t) \/ StreamError(t) \/ StreamAborted(t)
  \/ SaveAssistant(t) \/ SaveAssistantFails(t)

TurnFairness == \A t \in TurnIds : WF_vars(Step(t))

\* the socket stays open: the client sends welcome and input only, and no
\* stream is aborted
NextOpen ==
  \/ Open
  \/ \E kind \in Kinds : RecvTurn(kind)
  \/ \E t \in TurnIds : EnsureDone(t)
  \/ \E t \in TurnIds : EnsureFails(t)
  \/ \E t \in TurnIds : SaveUser(t)
  \/ \E t \in TurnIds : SaveUserFails(t)
  \/ \E t \in TurnIds : OpenStream(t)
  \/ \E t \in TurnIds : BuildFails(t)
  \/ \E t \in TurnIds : Delta(t)
  \/ \E t \in TurnIds : Completed(t)
  \/ \E t \in TurnIds : StreamError(t)
  \/ \E t \in TurnIds : SaveAssistant(t)
  \/ \E t \in TurnIds : SaveAssistantFails(t)

SpecFair == Init /\ [][NextOpen]_vars /\ TurnFairness

\* C30: after a turn has failed, every later turn that is queued or running
\* eventually settles, and a turn that starts while no session is cached
\* starts with the session lookup.
C30_QueueRecovers ==
  /\ \A a, b \in TurnIds :
       (a < b /\ task[a].pc = "failed"
          /\ task[b].pc \in RunningPcs \cup {"queued"})
         ~> (task[b].pc \in Settled)
  /\ [][\A t \in TurnIds :
         (task[t].pc \notin RunningPcs /\ task'[t].pc \in RunningPcs
            /\ state.session = NoSession)
           => task'[t].pc = "ensure"]_vars

\* the session creation of one turn failed and a later turn created the
\* session and went through
C30_Witness ==
  \E a, b \in TurnIds :
    /\ a < b /\ task[a].pc = "failed" /\ task[a].sess = NoSession
    /\ task[b].pc = "done" /\ task[b].created
    /\ sessionId = NoSession

\* the socket stays open and the client also sends abort; the session
\* lookup, the saves and the prompt building resolve
NextAbort ==
  \/ Open
  \/ \E kind \in Kinds : RecvTurn(kind)
  \/ RecvAbort
  \/ \E t \in TurnIds : EnsureDone(t)
  \/ \E t \in TurnIds : SaveUser(t)
  \/ \E t \in TurnIds : OpenStream(t)
  \/ \E t \in TurnIds : Delta(t)
  \/ \E t \in TurnIds : Completed(t)
  \/ \E t \in TurnIds : StreamAborted(t)
  \/ \E t \in TurnIds : SaveAssistant(t)

SpecAbort == Init /\ [][NextAbort]_vars /\ TurnFairness

InitSend ==
  /\ maidId = "chat" /\ sessionId = NoSession /\ sendThrows = TRUE
  /\ phase = "upgraded"
  /\ state = [session |-> NoSession, stream |-> NoStream, closing |-> FALSE]
  /\ q = <<>>
  /\ task = [t \in TurnIds |-> NoTask]
  /\ streams = [t \in TurnIds |-> "none"]
  /\ sent = <<>>
  /\ closeCalls = <<>>
  /\ dbSessions = InitialSessions
  /\ dbMessages = <<>>
  /\ signalled = {}
  /\ nMsgs = 0
  /\ discarded = {}
  /\ abortedMid = {}
  /\ lastOp = "init"
  /\ KeysInit /\ MemIdle /\ QueueIdle /\ FnIdle

SpecSend == InitSend /\ [][Next]_vars

\* C28: when every send fails, no send makes a handler reject: the step
\* that sends stream_start leaves the stream open, and every turn whose
\* stream completed and whose assistant save resolved has persisted its
\* assistant message, has signalled extraction and is done.
C28_SendNeverThrows ==
  sendThrows =>
    /\ lastOp = "openStream" =>
         (state.stream # NoStream /\ task[state.stream].pc = "streaming")
    /\ \A t \in TurnIds :
         (streams[t] = "completed" /\ task[t].pc # "saveAsst") =>
           (MessagesOf("assistant", t) # {} => (t \in signalled /\ task[t].pc = "done"))

C28_Witness ==
  /\ sendThrows
  /\ \E t \in TurnIds :
       /\ streams[t] = "completed" /\ task[t].pc = "done"
       /\ MessagesOf("assistant", t) # {} /\ t \in signalled


\* the positions of a running handler before it has opened its stream
BeforeStream == {"ensure", "saveUser", "build"}

\* C38: once state.closing is true no step of the socket persists a message
\* or opens an LLM stream, whatever the position of the running turn was
\* when closing was set.
C38_ClosingStopsWork ==
  [][state.closing =>
       /\ dbMessages' = dbMessages
       /\ \A t \in TurnIds : streams[t] = "none" => streams'[t] = "none"]_vars

\* C39: a turn that is running and has not yet opened its stream when an
\* abort is handled is cancelled: the step after the abort does not carry
\* the turn on to its stream_start, its stream or an assistant message.
C39_AbortCancelsEarlyTurn ==
  [][\A t \in TurnIds :
       (lastOp = "abort" /\ task[t].pc \in BeforeStream) =>
         /\ FramesOf("stream_start", t)' = {}
         /\ streams'[t] = "none"
         /\ MessagesOf("assistant", t)' = {}]_vars
\* ------------------------------------------------ connection-key store
MapSet(m, k, v) == [x \in DOMAIN m \cup {k} |-> IF x = k THEN v ELSE m[x]]

\* wsConnectionKeys.delete(key)
MapKeep(m, k) == m
MapDelete(m, k) == [x \in DOMAIN m \ {k} |-> m[x]]

\* what consumeWsConnectionKey(key) returns: {} for null, else {data}
ConsumeResult(key) ==
  IF key \notin DOMAIN wsConnectionKeys THEN {}
  ELSE IF wsConnectionKeys[key].expiresAt <= now THEN {}
  ELSE {[userId |-> wsConnectionKeys[key].userId,
         sessionId |-> wsConnectionKeys[key].sessionId]}

\* the socket and the memory tables stay as Init left them
KeysFrame == UNCHANGED <<wsVars, memVars, queueVars, fnVars>>

\* createWsConnectionKey({userId, sessionId})
createWsConnectionKey(u, sid) ==
  /\ issued < MaxKeys
  /\ issued' = issued + 1
  /\ wsConnectionKeys' = MapSet(wsConnectionKeys, issued + 1,
       [userId |-> u, sessionId |-> sid,
        expiresAt |-> now + WS_CONNECTION_KEY_TTL_MS])
  /\ keyOp' = [op |-> "create", key |-> issued + 1, result |-> {}]
  /\ UNCHANGED <<now, returned>>
  /\ KeysFrame

\* consumeWsConnectionKey(key)
consumeWsConnectionKey(key) ==
  /\ wsConnectionKeys' = IF key \in DOMAIN wsConnectionKeys
                           THEN MapDelete(wsConnectionKeys, key)
                           ELSE wsConnectionKeys
  /\ keyOp' = [op |-> "consume", key |-> key, result |-> ConsumeResult(key)]
  /\ returned' = IF ConsumeResult(key) # {}
                   THEN [returned EXCEPT ![key] = @ + 1]
                   ELSE returned
  /\ UNCHANGED <<now, issued>>
  /\ KeysFrame

\* time passes
Tick ==
  /\ now < MaxTicks * HalfTtl
  /\ now' = now + HalfTtl
  /\ keyOp' = [op |-> "tick", key |-> 0, result |-> {}]
  /\ UNCHANGED <<wsConnectionKeys, issued, returned>>
  /\ KeysFrame

NextKeys ==
  \/ \E u \in Users, sid \in {NoSession, 1} : createWsConnectionKey(u, sid)
  \/ \E key \in KeyIds : consumeWsConnectionKey(key)
  \/ Tick

\* an empty store; the socket and the memory tables are not exercised
InitKeys == Init /\ maidId = "chat" /\ sessionId = NoSession

SpecKeys == InitKeys /\ [][NextKeys]_vars

\* C16: each issued key is returned by a successful consume at most once; a
\* consume of an absent or expired key returns none; a consume that finds an
\* entry removes it; a successful consume returns the data the key was
\* issued for.
C16_ConsumeOnce ==
  /\ [](\A k \in KeyIds : returned[k] <= 1)
  /\ [][keyOp'.op = "consume" =>
          LET k == keyOp'.key IN
            /\ (k \notin DOMAIN wsConnectionKeys
                  \/ wsConnectionKeys[k].expiresAt <= now) => keyOp'.result = {}
            /\ k \notin DOMAIN wsConnectionKeys'
            /\ \A d \in keyOp'.result :
                 /\ k \in DOMAIN wsConnectionKeys
                 /\ d.userId = wsConnectionKeys[k].userId
                 /\ d.sessionId = wsConnectionKeys[k].sessionId]_vars

C16_Witness ==
  /\ keyOp.op = "consume"
  /\ keyOp.result = {}
  /\ keyOp.key \in KeyIds
  /\ returned[keyOp.key] = 1

\* ------------------------------------------- memory tables and queries
\* texts the fact and action oracles produce, and their embeddings as
\* points on a line; distances are in tenths
Texts == {"f1", "other"}
embed(text) == IF text = "f1" THEN 0 ELSE IF text = "other" THEN 10 ELSE 20
cosineDistance(a, b) == IF a >= b THEN a - b ELSE b - a
MaxDistance(threshold) == 10 - threshold

\* eq(memories.userId, userId)
OwnedByAny(m, u) == TRUE
OwnedBy(m, u) == m.userId = u

MinOf(a, b) == IF a <= b THEN a ELSE b

\* where userId = u and distance <= maxDistance, order by distance, limit
NearestRows(table, u, e, maxDistance, limit) ==
  LET match == {m \in table : OwnedBy(m, u)
                   /\ cosineDistance(m.embedding, e) <= maxDistance}
  IN {T \in SUBSET match :
        /\ Cardinality(T) = MinOf(limit, Cardinality(match))
        /\ \A a \in T, b \in match \ T :
             cosineDistance(a.embedding, e) <= cosineDistance(b.embedding, e)}

\* where userId = u, order by updatedAt desc, id desc, limit
RecentRows(table, u, limit) ==
  LET match == {m \in table : OwnedBy(m, u)}
      Before(a, b) == \/ a.updatedAt > b.updatedAt
                      \/ a.updatedAt = b.updatedAt /\ a.id > b.id
  IN {m \in match : Cardinality({o \in match : Before(o, m)}) < limit}

\* the socket and the key store stay as Init left them
MemFrame == UNCHANGED <<wsVars, keyVars, queueVars, fnVars>>

\* memoryService.getRelatedMemories(query, {limit, threshold}) for user u
getRelatedMemories(u, e, threshold, limit) ==
  /\ \E T \in NearestRows(memories, u, e, MaxDistance(threshold), limit) :
       queryResult' = [op |-> "related", userId |-> u, rows |-> T,
                       e |-> e, threshold |-> threshold, limit |-> limit]
  /\ UNCHANGED <<memories, memSerial, messages, run, runs>>
  /\ MemFrame

\* memoryService.listRecentUpdatedMemories(limit) for user u
listRecentUpdatedMemories(u, limit) ==
  /\ queryResult' = [op |-> "recent", userId |-> u,
                     rows |-> RecentRows(memories, u, limit),
                     e |-> 0, threshold |-> 0, limit |-> limit]
  /\ UNCHANGED <<memories, memSerial, messages, run, runs>>
  /\ MemFrame

\* the stages of an extraction run between its snapshot and its end
RunStages == {"facts", "markNoFacts", "embed", "nearby", "generate", "apply",
              "mark"}

\* a turn of some socket of user u persists a message (extractedAt null)
persistMessage(u) ==
  /\ Len(messages) < MaxMsgs
  /\ messages' = Append(messages, [userId |-> u, extractedAt |-> 0])
  /\ run' = IF run.pc \in RunStages
              THEN [run EXCEPT !.late = @ \cup {Len(messages) + 1}]
              ELSE run
  /\ UNCHANGED <<memories, memSerial, runs, queryResult>>
  /\ MemFrame

\* ------------------------------------------------ one extraction run
FactTexts == {"f1"}
\* ids of the rows a run can meet: the initial rows and the ids the
\* sequence hands out
MemoryIds == 1..(Cardinality(Users) + MaxRuns * MaxActions)
Events == {"NONE", "ADD", "UPDATE", "DELETE"}

\* loadPendingMessages: ids of the user's messages with extractedAt null
PendingIds(u) ==
  {i \in DOMAIN messages :
     messages[i].userId = u /\ messages[i].extractedAt = 0}

\* markMessagesExtracted(db, ids): set extractedAt where id in ids
MarkedNone(ids) == messages
MarkedPending(ids) ==
  [i \in DOMAIN messages |->
     IF messages[i].extractedAt = 0
       THEN [messages[i] EXCEPT !.extractedAt = runs]
     ELSE messages[i]]
MarkedMessages(ids) ==
  [i \in DOMAIN messages |->
     IF i \in ids THEN [messages[i] EXCEPT !.extractedAt = runs]
     ELSE messages[i]]

\* db.transaction: a callback that throws leaves the committed rows
KeepWrites(committed, working) == working
Rollback(committed, working) == committed

\* the run after loadPendingMessages resolved: an empty snapshot returns
\* out at once
Snapshot(u) ==
  [NoRun EXCEPT !.userId = u, !.ids = PendingIds(u),
                !.before = memories, !.seen = Len(messages),
                !.pc = IF PendingIds(u) = {} THEN "returned" ELSE "facts"]

\* extractMemory(db, userId): loadPendingMessages resolves
loadPendingMessages(u) ==
  /\ run.pc \in {"idle", "returned", "thrown"}
  /\ runs < MaxRuns
  /\ runs' = runs + 1
  /\ run' = Snapshot(u)
  /\ UNCHANGED <<memories, memSerial, messages, queryResult>>
  /\ MemFrame

\* extractMemory is called once more for the user of a call that returned
\* (the second call of the e2e test)
extractMemoryAgain ==
  /\ run.pc = "returned"
  /\ runs < MaxRuns + 1
  /\ runs' = runs + 1
  /\ run' = Snapshot(run.userId)
  /\ UNCHANGED <<memories, memSerial, messages, queryResult>>
  /\ MemFrame

\* extractFacts(text) resolves with the facts F
extractFacts(F) ==
  /\ run.pc = "facts"
  /\ run' = [run EXCEPT !.facts = F,
                        !.out.factsExtracted = Cardinality(F),
                        !.pc = IF F = {} THEN "markNoFacts" ELSE "embed"]
  /\ UNCHANGED <<memories, memSerial, messages, runs, queryResult>>
  /\ MemFrame

\* facts.length === 0: markMessagesExtracted(db, ids) resolves, return
markNoFacts ==
  /\ run.pc = "markNoFacts"
  /\ messages' = MarkedMessages(run.ids)
  /\ run' = [run EXCEPT !.pc = "returned"]
  /\ UNCHANGED <<memories, memSerial, runs, queryResult>>
  /\ MemFrame

\* embedFacts(facts) resolves
embedFacts ==
  /\ run.pc = "embed"
  /\ run' = [run EXCEPT !.pc = "nearby"]
  /\ UNCHANGED <<memories, memSerial, messages, runs, queryResult>>
  /\ MemFrame

\* findNearbyMemories resolves; idMap holds the ids of the rows found
findNearbyMemories ==
  /\ run.pc = "nearby"
  /\ \E pick \in [run.facts -> SUBSET memories] :
       /\ \A f \in run.facts :
            pick[f] \in NearestRows(memories, run.userId, embed(f),
                                    MaxDistance(THRESHOLD), TOP_K)
       /\ run' = [run EXCEPT
                    !.idMap = UNION {{m.id : m \in pick[f]} : f \in run.facts},
                    !.pc = "generate"]
  /\ UNCHANGED <<memories, memSerial, messages, runs, queryResult>>
  /\ MemFrame

\* generateActions resolves with n actions; applyActions opens the
\* transaction. The actions are drawn as applyActions consumes them.
generateActions(n) ==
  /\ run.pc = "generate"
  /\ run' = [run EXCEPT !.left = n, !.tx = memories, !.pc = "apply"]
  /\ UNCHANGED <<memories, memSerial, messages, runs, queryResult>>
  /\ MemFrame

\* the rows of the transaction after one action of applyActions
AppliedRows(event, id, text) ==
  IF event = "NONE" THEN run.tx
  ELSE IF event # "ADD" /\ id \notin run.idMap THEN run.tx
  ELSE IF event = "DELETE" THEN {m \in run.tx : m.id # id}
  ELSE IF event = "ADD"
    THEN run.tx \cup {[id |-> memSerial + 1, userId |-> run.userId,
                        content |-> text, embedding |-> embed(text),
                        updatedAt |-> runs]}
  ELSE {IF m.id = id
          THEN [m EXCEPT !.content = text, !.embedding = embed(text),
                         !.updatedAt = runs]
          ELSE m : m \in run.tx}

\* the stats of applyActions after one action
CountedStats(event, id) ==
  IF event = "NONE" THEN [run.out EXCEPT !.memoriesUnchanged = @ + 1]
  ELSE IF event # "ADD" /\ id \notin run.idMap THEN run.out
  ELSE IF event = "DELETE" THEN [run.out EXCEPT !.memoriesDeleted = @ + 1]
  ELSE IF event = "ADD" THEN [run.out EXCEPT !.memoriesAdded = @ + 1]
  ELSE [run.out EXCEPT !.memoriesUpdated = @ + 1]

\* applyActions: one iteration of the loop inside the transaction
applyAction(event, id, text) ==
  /\ run.pc = "apply"
  /\ run.left > 0
  /\ id \in run.idMap \cup {0}
  /\ run' = [run EXCEPT !.left = @ - 1, !.tx = AppliedRows(event, id, text),
                        !.out = CountedStats(event, id)]
  /\ memSerial' = IF event = "ADD" THEN memSerial + 1 ELSE memSerial
  /\ UNCHANGED <<memories, messages, runs, queryResult>>
  /\ MemFrame

\* applyActions: the callback returned, the transaction commits
commitTransaction ==
  /\ run.pc = "apply"
  /\ run.left = 0
  /\ memories' = run.tx
  /\ run' = [run EXCEPT !.committed = TRUE, !.pc = "mark"]
  /\ UNCHANGED <<memSerial, messages, runs, queryResult>>
  /\ MemFrame

\* markMessagesExtracted(db, ids) after the commit resolves, return
markMessagesExtracted ==
  /\ run.pc = "mark"
  /\ messages' = MarkedMessages(run.ids)
  /\ run' = [run EXCEPT !.pc = "returned"]
  /\ UNCHANGED <<memories, memSerial, runs, queryResult>>
  /\ MemFrame

\* the pending call of any stage rejects: a transaction in progress is
\* rolled back, the catch block rethrows
runFails ==
  /\ run.pc \in RunStages
  /\ memories' = IF run.pc = "apply" THEN Rollback(memories, run.tx)
                  ELSE memories
  /\ run' = [run EXCEPT !.pc = "thrown", !.failedAt = run.pc]
  /\ UNCHANGED <<memSerial, messages, runs, queryResult>>
  /\ MemFrame

NextMemory ==
  \/ \E u \in Users : loadPendingMessages(u)
  \/ \E F \in SUBSET FactTexts : extractFacts(F)
  \/ markNoFacts
  \/ embedFacts
  \/ findNearbyMemories
  \/ \E n \in 0..MaxActions : generateActions(n)
  \/ \E event \in Events, id \in MemoryIds \cup {0}, text \in Texts :
       applyAction(event, id, text)
  \/ commitTransaction
  \/ markMessagesExtracted
  \/ runFails
  \/ persistMessage(UserId)

\* the memories each user has when the runs start: none, or one per user
InitialRow(u, id) == [id |-> id, userId |-> u, content |-> "f1",
                      embedding |-> embed("f1"), updatedAt |-> 0]
InitialTables == {{}, {InitialRow("u1", 1)},
                  {InitialRow("u1", 1), InitialRow("u2", Cardinality(Users))}}

\* no run in progress, no message yet; the socket and the key store are
\* not exercised
InitMemory ==
  /\ WsInit /\ maidId = "chat" /\ sessionId = NoSession
  /\ KeysInit
  /\ QueueIdle /\ FnIdle
  /\ memories \in InitialTables
  /\ memSerial = Cardinality(Users)
  /\ messages = <<>>
  /\ run = NoRun
  /\ runs = 0
  /\ queryResult = NoResult

SpecMemory == InitMemory /\ [][NextMemory]_vars

\* a run that adds at most one memory, called again after it returned,
\* while the turns of both users persist messages
NextRerun ==
  \/ loadPendingMessages(UserId)
  \/ extractMemoryAgain
  \/ \E F \in SUBSET FactTexts : extractFacts(F)
  \/ markNoFacts
  \/ embedFacts
  \/ findNearbyMemories
  \/ \E n \in {0, 1} : generateActions(n)
  \/ \E text \in FactTexts : applyAction("ADD", 0, text)
  \/ commitTransaction
  \/ markMessagesExtracted
  \/ runFails
  \/ \E u \in Users : persistMessage(u)

SpecRerun == InitMemory /\ [][NextRerun]_vars

RunFinished == run.pc \in {"returned", "thrown"}
SnapshotMarked == \A i \in run.ids : messages[i].extractedAt # 0
SnapshotPending == \A i \in run.ids : messages[i].extractedAt = 0

\* C19 as stated: after a run over a non-empty snapshot has returned or
\* thrown, its snapshot messages are all marked extracted exactly when the
\* run's memory transaction committed.
C19_MarkedIffCommitted ==
  RunFinished /\ run.ids # {} => (SnapshotMarked <=> run.committed)

\* C19 amended: after a run over a non-empty snapshot has finished, its
\* snapshot messages are all marked if the run returned and all pending if
\* it threw; a run that returned had found no facts and opened no
\* transaction, or had committed its transaction; a committed transaction
\* whose marking failed leaves the snapshot pending.
C19_MarkedIffReturned ==
  RunFinished /\ run.ids # {} =>
    /\ run.pc = "returned" => SnapshotMarked
    /\ run.pc = "thrown" => SnapshotPending
    /\ run.pc = "returned" => (run.committed <=> run.facts # {})
    /\ run.committed => run.facts # {}
    /\ run.failedAt = "mark" <=> (run.pc = "thrown" /\ run.committed)

C19_Witness ==
  /\ run.pc = "thrown"
  /\ run.failedAt = "mark"
  /\ run.committed
  /\ run.ids # {}
  /\ memories # run.before
  /\ SnapshotPending

\* C20: a run that failed in fact extraction, embedding, the nearby lookup,
\* action generation or anywhere inside the applyActions transaction has left
\* the memories table as it was when the run started and has marked no
\* snapshot message.
C20_FailureAtomic ==
  run.pc = "thrown" /\ run.failedAt \in {"facts", "embed", "nearby",
                                          "generate", "apply"} =>
    /\ memories = run.before
    /\ SnapshotPending
    /\ ~run.committed

C20_Witness ==
  /\ run.pc = "thrown"
  /\ run.failedAt = "apply"
  /\ run.left < MaxActions
  /\ run.tx # run.before
  /\ run.before # {}
  /\ memories = run.before

\* the rows of a table that a later table no longer holds unchanged
Mutated(old, new) == old \ new

\* C32: every row an extraction run updates or deletes, in its transaction
\* and in the table when the transaction commits, has an id of the run's
\* idMap and belongs to the run's userId; applying an UPDATE or DELETE
\* whose id is not in idMap leaves the rows of the transaction as they were.
C32_OnlyPoolRows ==
  [][/\ (run.pc = "apply" /\ run'.pc = "apply") =>
         \A m \in Mutated(run.tx, run'.tx) :
            m.id \in run.idMap /\ m.userId = run.userId
     /\ (run.pc = "apply" /\ run'.pc = "mark") =>
         \A m \in Mutated(memories, memories') :
            m.id \in run.idMap /\ m.userId = run.userId
     /\ \A event \in {"UPDATE", "DELETE"}, text \in Texts :
          applyAction(event, 0, text) =>
            (run'.tx = run.tx /\ run'.out = run.out)]_vars

C32_Witness ==
  /\ run.committed
  /\ run.out.memoriesUpdated + run.out.memoriesDeleted > 0
  /\ \E m \in Mutated(run.before, memories) : m.id \in run.idMap
  /\ \E m \in memories : m.userId # run.userId

\* C31: a call that finds no pending message returns at once with zero
\* stats and leaves the memories and the messages as they were; a run whose
\* fact extraction yields no facts marks every snapshot message, leaves the
\* memories as they were and returns zero stats; a call made for the same
\* user after a call returned, with no message persisted for that user
\* since the earlier snapshot was read, finds no pending message.
C31_NothingToDo ==
  [][/\ (runs' = runs + 1 /\ run'.ids = {}) =>
         /\ run'.pc = "returned"
         /\ run'.out = ZeroStats
         /\ memories' = memories /\ messages' = messages
     /\ (run.pc = "markNoFacts" /\ run'.pc = "returned") =>
         /\ \A i \in run.ids : messages'[i].extractedAt # 0
         /\ memories' = memories /\ memories' = run.before
         /\ run'.out = ZeroStats
     /\ ( /\ runs' = runs + 1
          /\ run.pc = "returned"
          /\ run'.userId = run.userId
          /\ \A i \in DOMAIN messages :
               (i > run.seen => messages[i].userId # run.userId) ) =>
         run'.ids = {}]_vars

C31_Witness ==
  /\ runs > 1
  /\ run.pc = "returned"
  /\ run.ids = {}
  /\ run.out = ZeroStats
  /\ \E i \in DOMAIN messages :
       messages[i].userId = run.userId /\ messages[i].extractedAt # 0
  /\ \E i \in DOMAIN messages :
       messages[i].userId = run.userId /\ messages[i].extractedAt = runs - 1

\* C40: when a run has finished, every message it marked belongs to its
\* snapshot, and every message persisted while the run was in progress
\* (after the snapshot was read) still has extractedAt null.
C40_OnlySnapshotMarked ==
  RunFinished =>
    /\ \A i \in DOMAIN messages :
         (messages[i].extractedAt = runs => i \in run.ids)
    /\ \A i \in run.late :
         i \notin run.ids /\ messages[i].extractedAt = 0

C40_Witness ==
  /\ run.pc = "returned"
  /\ run.ids # {}
  /\ SnapshotMarked
  /\ \E i \in run.late :
       messages[i].userId = run.userId /\ messages[i].extractedAt = 0

\* ------------------------------------------- the memory service's queries
\* any memories table of up to MaxRows rows
RowIds == 1..MaxRows
\* the texts of the rows and of the queries: a text can also point away
\* from another (cosine distance above 1, up to 2)
QueryTexts == Texts \cup {"opposite"}
\* every table of at most MaxRows rows with distinct ids: each id is
\* absent or carries one row
RowChoices == [present : BOOLEAN, userId : Users,
               embedding : {embed(text) : text \in QueryTexts},
               updatedAt : {0, 1}]
MemoryTables ==
  {{[id |-> i, userId |-> f[i].userId, content |-> "f1",
     embedding |-> f[i].embedding, updatedAt |-> f[i].updatedAt] :
      i \in {r \in RowIds : f[r].present}} : f \in [RowIds -> RowChoices]}

InitQuery ==
  /\ WsInit /\ maidId = "chat" /\ sessionId = NoSession
  /\ KeysInit
  /\ QueueIdle /\ FnIdle
  /\ memories \in MemoryTables
  /\ memSerial = MaxRows
  /\ messages = <<>>
  /\ run = NoRun
  /\ runs = 0
  /\ queryResult = NoResult

NextQuery ==
  \/ \E u \in Users, text \in QueryTexts, threshold \in {0, THRESHOLD},
        limit \in {1, MEMORY_SERVICE_DEFAULT_LIMIT} :
       getRelatedMemories(u, embed(text), threshold, limit)
  \/ \E u \in Users, limit \in {1, MEMORY_SERVICE_DEFAULT_LIMIT} :
       listRecentUpdatedMemories(u, limit)

SpecQuery == InitQuery /\ [][NextQuery]_vars

\* C18: every memory that getRelatedMemories or listRecentUpdatedMemories of
\* the service scoped to user u returns is a row of the table owned by u.
C18_QueryScope ==
  \A row \in queryResult.rows :
    row \in memories /\ row.userId = queryResult.userId

C18_Witness ==
  /\ queryResult.op = "related"
  /\ queryResult.rows # {}
  /\ \E m \in memories : m.userId # queryResult.userId

\* C26: a related-memory lookup with threshold 0 returns the limit nearest
\* memories of the user: as many rows as the limit and the user's rows
\* allow, none of them farther from the query than a row left out.
C26_NearestRegardless ==
  (queryResult.op = "related" /\ queryResult.threshold = 0) =>
    LET own == {m \in memories : m.userId = queryResult.userId}
        d(m) == cosineDistance(m.embedding, queryResult.e)
    IN  /\ Cardinality(queryResult.rows) =
             MinOf(queryResult.limit, Cardinality(own))
        /\ \A a \in queryResult.rows, b \in own \ queryResult.rows :
             d(a) <= d(b)

\* ------------------------------------------------ the extraction queue
\* what service.enqueue (queue.add) can end with: it resolves, or it rejects
\* with one of these values; a message is the set of fragments it contains
Resolved == [rejects |-> FALSE, isError |-> FALSE, message |-> {}]
DuplicateJobError ==
  [rejects |-> TRUE, isError |-> TRUE, message |-> {"Job", "already exists"}]
OtherErrors ==
  {[rejects |-> TRUE, isError |-> TRUE, message |-> {"Connection is closed"}],
   [rejects |-> TRUE, isError |-> TRUE, message |-> {"Job"}],
   [rejects |-> TRUE, isError |-> FALSE, message |-> {"Job", "already exists"}]}
BackendOutcomes == {Resolved, DuplicateJobError} \cup OtherErrors

\* isDuplicateJobError(error)
IsAnyError(error) == TRUE
isDuplicateJobError(error) ==
  IF ~error.isError THEN FALSE
  ELSE "Job" \in error.message /\ "already exists" \in error.message

\* const jobId = `memory-${userId}`
freshJobId(userId) == <<"memory", userId, Cardinality(jobs)>>
jobId(userId) == <<"memory", userId, 0>>

\* jobs of user u the backend still has to run or is running
LiveStates == {"delayed", "waiting", "active"}
LiveJobs(u) == {j \in jobs : j.userId = u /\ j.state \in LiveStates}
ActiveJobs == {j \in jobs : j.state = "active"}
\* jobs whose processor has not been called yet
NotStarted(j) == j.state \in {"delayed", "waiting"} /\ j.attemptsMade = 0

\* queue.add(name, {userId}, {jobId, delay}): a job whose id the backend
\* already holds is not added again and the held job is left as it is
HeldNever(id) == FALSE
Held(id) == \E j \in jobs : j.id = id

\* quiet: ms since the last signal of the job's user, until the job starts;
\* cur: the job was added in the user's current debounce window
NewJob(id, u) ==
  [id |-> id, userId |-> u, state |-> "delayed",
   delay |-> MEMORY_QUEUE_DEBOUNCE_DELAY_MS, attemptsMade |-> 0,
   pc |-> "none", ids |-> {}, cur |-> TRUE, quiet |-> 0]

\* a signal that comes a full delay or more after the one that opened the
\* window opens the next window
OpensWindow(u) == since[u] >= MEMORY_QUEUE_DEBOUNCE_DELAY_MS
Signalled(J, u) ==
  {IF j.userId = u
   THEN [j EXCEPT !.cur = IF OpensWindow(u) THEN FALSE ELSE @,
                  !.quiet = IF NotStarted(j) THEN 0 ELSE @]
   ELSE j : j \in J}

QueueFrame == UNCHANGED <<wsVars, keyVars, fnVars>>

\* enqueue({userId}) with the backend outcome b: the whole call, its catch
\* block included
enqueue(u, b) ==
  /\ b = DuplicateJobError => Held(jobId(u))
  /\ jobs' = IF b.rejects \/ Held(jobId(u)) THEN Signalled(jobs, u)
             ELSE Signalled(jobs, u) \cup {NewJob(jobId(u), u)}
  /\ since' = [since EXCEPT ![u] = IF OpensWindow(u) THEN 0 ELSE @]
  /\ windowRuns' = [windowRuns EXCEPT ![u] = IF OpensWindow(u) THEN 0 ELSE @]
  /\ covered' = covered \cup {i \in DOMAIN messages : messages[i].userId = u}
  /\ enq' = [backend |-> b,
             outcome |-> IF ~b.rejects THEN "returned"
                         ELSE IF isDuplicateJobError(b) THEN "returned"
                         ELSE "thrown"]
  /\ UNCHANGED memVars
  /\ QueueFrame

\* time passes: the delays of the delayed jobs run down
Saturating(ms) ==
  IF ms + TickMs >= MEMORY_QUEUE_DEBOUNCE_DELAY_MS
  THEN MEMORY_QUEUE_DEBOUNCE_DELAY_MS ELSE ms + TickMs
Elapse ==
  /\ jobs' = {[j EXCEPT !.delay = IF j.state # "delayed" THEN @
                                  ELSE IF @ > TickMs THEN @ - TickMs ELSE 0,
                        !.quiet = IF NotStarted(j) THEN Saturating(@) ELSE @]
              : j \in jobs}
  /\ since' = [u \in Users |-> Saturating(since[u])]
  /\ UNCHANGED <<windowRuns, covered, enq>>
  /\ UNCHANGED memVars
  /\ QueueFrame

\* the backend moves a delayed job of user u whose delay is over to the
\* wait list
promote(u) ==
  /\ \E j \in jobs :
       /\ j.userId = u /\ j.state = "delayed" /\ j.delay = 0
       /\ jobs' = (jobs \ {j}) \cup {[j EXCEPT !.state = "waiting"]}
  /\ UNCHANGED <<since, windowRuns, covered, enq>>
  /\ UNCHANGED memVars
  /\ QueueFrame

\* a worker with a free slot takes a waiting job and calls the processor:
\* extractMemory(database, job.data.userId)
startJob(u) ==
  /\ Cardinality(ActiveJobs) < MaxWorkers
  /\ \E j \in jobs :
       /\ j.userId = u /\ j.state = "waiting"
       /\ jobs' = (jobs \ {j}) \cup
                    {[j EXCEPT !.state = "active", !.pc = "load"]}
       /\ windowRuns' = [windowRuns EXCEPT ![u] =
                           IF j.cur /\ j.attemptsMade = 0 THEN @ + 1 ELSE @]
  /\ UNCHANGED <<since, covered, enq>>
  /\ UNCHANGED memVars
  /\ QueueFrame

\* the run reads its snapshot of the user's pending messages
loadSnapshot(u) ==
  /\ \E j \in jobs :
       /\ j.userId = u /\ j.state = "active" /\ j.pc = "load"
       /\ jobs' = (jobs \ {j}) \cup
                    {[j EXCEPT !.pc = "run", !.ids = PendingIds(u)]}
  /\ UNCHANGED <<since, windowRuns, covered, enq>>
  /\ UNCHANGED memVars
  /\ QueueFrame

\* the processor resolves: the run has marked its snapshot; removeOnComplete
completeJob(u) ==
  /\ \E j \in jobs :
       /\ j.userId = u /\ j.state = "active" /\ j.pc = "run"
       /\ messages' = MarkedMessages(j.ids)
       /\ jobs' = jobs \ {j}
  /\ UNCHANGED <<since, windowRuns, covered, enq>>
  /\ UNCHANGED <<memories, memSerial, run, runs, queryResult>>
  /\ QueueFrame

\* backoff: {type: 'exponential', delay}: delay * 2^(attemptsMade - 1)
RECURSIVE TwoTo(_)
TwoTo(n) == IF n <= 0 THEN 1 ELSE 2 * TwoTo(n - 1)
Backoff(attemptsMade) == MEMORY_QUEUE_BACKOFF_DELAY_MS * TwoTo(attemptsMade - 1)

\* the processor rejects: the job is retried after its backoff until
\* attempts are used up, then it stays in the failed set (removeOnFail: 100)
failJob(u) ==
  /\ \E j \in jobs :
       /\ j.userId = u /\ j.state = "active"
       /\ jobs' = (jobs \ {j}) \cup
            {IF j.attemptsMade + 1 < MEMORY_QUEUE_ATTEMPTS
             THEN [j EXCEPT !.state = "delayed", !.pc = "none", !.ids = {},
                            !.attemptsMade = @ + 1,
                            !.delay = Backoff(j.attemptsMade + 1)]
             ELSE [j EXCEPT !.state = "failed", !.pc = "none", !.ids = {},
                            !.attemptsMade = @ + 1]}
  /\ UNCHANGED <<since, windowRuns, covered, enq>>
  /\ UNCHANGED memVars
  /\ QueueFrame

NextQueue ==
  \/ \E u \in Users, b \in BackendOutcomes : enqueue(u, b)
  \/ Elapse
  \/ \E u \in Users : promote(u)
  \/ \E u \in Users : startJob(u)
  \/ \E u \in Users : loadSnapshot(u)
  \/ \E u \in Users : completeJob(u)
  \/ \E u \in Users : failJob(u)

\* the queue is empty; extractedAt stamps are the value of runs, which
\* stays at one here
InitQueue ==
  /\ WsInit /\ maidId = "chat" /\ sessionId = NoSession
  /\ KeysInit
  /\ QueueIdle /\ FnIdle
  /\ memories = {}
  /\ memSerial = 0
  /\ messages = <<>>
  /\ run = NoRun
  /\ runs = 1
  /\ queryResult = NoResult

SpecQueue == InitQueue /\ [][NextQueue]_vars

\* no run fails and the backend accepts every call
NextQueueFair ==
  \/ \E u \in Users : enqueue(u, Resolved)
  \/ Elapse
  \/ \E u \in Users : promote(u)
  \/ \E u \in Users : startJob(u)
  \/ \E u \in Users : loadSnapshot(u)
  \/ \E u \in Users : completeJob(u)
  \/ \E u \in Users : persistMessage(u)

\* time passes, the backend promotes due jobs, a free worker takes a waiting
\* job and a run that does not fail goes on to its end
QueueFairness ==
  /\ WF_vars(Elapse)
  /\ \A u \in Users :
       /\ WF_vars(promote(u))
       /\ WF_vars(startJob(u))
       /\ WF_vars(loadSnapshot(u))
       /\ WF_vars(completeJob(u))

SpecQueueFair == InitQueue /\ [][NextQueueFair]_vars /\ QueueFairness

\* ------------------------------------------------ claims on the queue
Extracted(i) == i \in DOMAIN messages /\ messages[i].extractedAt # 0

\* C24: under fair scheduling and without failing runs, every message that
\* was persisted before a signal of its user is eventually marked extracted.
C24_SignalledEventuallyExtracted ==
  \A i \in 1..MaxMsgs : (i \in covered) ~> Extracted(i)

RunsOf(u) == {j \in ActiveJobs : j.userId = u}

\* C21: for every user, at most one job is delayed, waiting or active, and
\* at most one run is started for the jobs added in one debounce window,
\* however many signals the window holds.
C21_OneJobPerWindow ==
  \A u \in Users : Cardinality(LiveJobs(u)) <= 1 /\ windowRuns[u] <= 1

\* a run started for a window that held a second signal after the first
C21_Witness ==
  \E j \in ActiveJobs :
    /\ j.cur /\ j.attemptsMade = 0
    /\ j.quiet < MEMORY_QUEUE_DEBOUNCE_DELAY_MS
    /\ windowRuns[j.userId] = 1

\* C22: a signal that finds a job of its user adds no second job, and the
\* run of a burst starts no earlier than the debounce delay after the last
\* signal of the burst.
C22_RunAfterLastSignal ==
  /\ \A u \in Users : Cardinality({j \in jobs : j.userId = u}) <= 1
  /\ \A j \in jobs :
       ~NotStarted(j) => j.quiet >= MEMORY_QUEUE_DEBOUNCE_DELAY_MS

\* C23: no two extraction runs of one user are in progress at the same time.
C23_OneRunPerUser == \A u \in Users : Cardinality(RunsOf(u)) <= 1

\* runs of two users in progress together, one of them a retry
C23_Witness ==
  \E j1 \in ActiveJobs, j2 \in ActiveJobs :
    j1.userId # j2.userId /\ j1.attemptsMade > 0

\* C25: an enqueue call returns when the backend resolves or rejects with
\* the duplicate-job error, and throws when the backend rejects with
\* anything else.
C25_DuplicateIsSuccess ==
  enq.outcome # "none" =>
    /\ enq.backend \in {Resolved, DuplicateJobError} => enq.outcome = "returned"
    /\ enq.backend \in OtherErrors => enq.outcome = "thrown"

C25_Witness == enq.backend = DuplicateJobError /\ enq.outcome = "returned"

\* ------------------------------------------- the prompt of an input turn
\* the rows of session sid in the order of createdAt, id
SessionRows(sid) == SelectSeq(dbMessages, LAMBDA m : m.sessionId = sid)

Reverse(s) == [i \in 1..Len(s) |-> s[Len(s) + 1 - i]]

\* session.listRecentMessages(limit, true): the newest rows of the session,
\* newest first
listRecentMessages(sid, limit) ==
  LET rows == Reverse(SessionRows(sid))
  IN SubSeq(rows, 1, MinOf(limit, Len(rows)))

\* buildChatInput: the lines of the history block, none when at most one
\* row was returned
History(recentMessages) ==
  IF Len(recentMessages) > 1 THEN Reverse(Tail(recentMessages)) ELSE <<>>

\* a turn of another socket attached to session sid persists a message
otherSocketSaveMessage(sid) ==
  /\ Cardinality({i \in DOMAIN dbMessages : dbMessages[i].turn = 0}) < MaxOthers
  /\ \E s \in dbSessions : s.id = sid /\ s.userId = UserId
  /\ dbMessages' = Append(dbMessages,
       [sessionId |-> sid, role |-> "user", turn |-> 0, content |-> 1])
  /\ lastOp' = "otherSocket"
  /\ UNCHANGED <<keyVars, memVars, queueVars, fnVars, sendThrows>>
  /\ UNCHANGED <<maidId, sessionId, phase, state, q, task, streams, sent,
                 closeCalls, dbSessions, signalled, nMsgs, discarded,
                 abortedMid>>

\* the socket stays open while other sockets of the user persist messages
NextShared ==
  \/ NextOpen
  \/ \E sid \in 1..(Cardinality(InitialSessions) + 1) :
       otherSocketSaveMessage(sid)

SpecShared == Init /\ [][NextShared]_vars

\* the rows listRecentMessages returns, oldest first, without the user
\* message turn t saved
RecentWithoutOwn(t) ==
  SelectSeq(Reverse(listRecentMessages(task[t].sess, HISTORY_LIMIT)),
            LAMBDA m : ~(m.turn = t /\ m.role = "user"))

\* C36: when the prompt of an input turn is built, its history block holds
\* the most recent messages of the session, oldest first, without exactly
\* the user message this turn saved, whatever other sockets of the session
\* persisted meanwhile.
C36_HistoryExcludesOwn ==
  [][\A t \in TurnIds :
       (task[t].kind = "input" /\ task[t].pc = "build"
          /\ task'[t].pc = "streaming") =>
         History(listRecentMessages(task[t].sess, HISTORY_LIMIT))
           = RecentWithoutOwn(t)]_vars

\* --------------------------------------- the helpers of generateActions
\* A text is the sequence of its characters; <<>> is the empty string, which
\* also stands for an old_memory that is not set.
Ta == <<"a">>
Tb == <<"b">>

BoundedSeq(S, n) == UNION {[1..k -> S] : k \in 0..n}

FnFrame == UNCHANGED <<wsVars, keyVars, memVars, queueVars>>

\* MemoryAction: {id, text, event, old_memory?}
MemoryAction(event, id, text, old) ==
  [event |-> event, id |-> id, text |-> text, old_memory |-> old]

\* repairInvalidActions: UPDATE/DELETE whose id idMap does not have
Invalid(action, idMap) ==
  action.event \in {"UPDATE", "DELETE"} /\ action.id \notin idMap

\* repairInvalidActions: noneActionsByText, text -> index of the action;
\* a later NONE action of the same text replaces an earlier one
noneActionsByText(actions, idMap) ==
  LET nones(t) == {j \in DOMAIN actions :
                     /\ actions[j].event = "NONE"
                     /\ actions[j].id \in idMap
                     /\ actions[j].text = t}
      texts == {actions[j].text : j \in {k \in DOMAIN actions :
                     actions[k].event = "NONE" /\ actions[k].id \in idMap}}
  IN [t \in texts |-> MaxOf(nones(t))]

\* repairInvalidActions: the loop over invalidActions; pending holds the
\* indexes of the invalid actions still to visit
RECURSIVE RepairLoop(_, _, _, _)
RepairLoop(actions, byText, droppedIds, pending) ==
  IF pending = <<>> THEN [actions |-> actions, droppedIds |-> droppedIds]
  ELSE LET action == actions[Head(pending)]
       IN IF action.old_memory = <<>> \/ action.old_memory \notin DOMAIN byText
            THEN RepairLoop(actions, byText, droppedIds, Tail(pending))
            ELSE LET j == byText[action.old_memory]
                     match == [actions[j] EXCEPT
                                 !.event = action.event,
                                 !.old_memory = action.old_memory,
                                 !.text = IF action.event = "UPDATE"
                                            THEN action.text ELSE @]
                 IN RepairLoop([actions EXCEPT ![j] = match],
                               [t \in DOMAIN byText \ {action.old_memory} |->
                                  byText[t]],
                               droppedIds \cup {action.id},
                               Tail(pending))

\* repairInvalidActions: invalidActions, as the indexes from i on, in order
RECURSIVE InvalidFrom(_, _, _)
InvalidFrom(actions, idMap, i) ==
  IF i > Len(actions) THEN <<>>
  ELSE IF Invalid(actions[i], idMap)
    THEN <<i>> \o InvalidFrom(actions, idMap, i + 1)
  ELSE InvalidFrom(actions, idMap, i + 1)

repairInvalidActions(actions, idMap) ==
  LET invalidActions == InvalidFrom(actions, idMap, 1)
      done == RepairLoop(actions, noneActionsByText(actions, idMap), {},
                         invalidActions)
  IN IF invalidActions = <<>> THEN actions
     ELSE SelectSeq(done.actions, LAMBDA a : a.id \notin done.droppedIds)

\* the answers of the LLM that repairInvalidActions is called on: ids 0 (in
\* idMap when it is not empty) and 5 (never in idMap)
RepairActions ==
  {MemoryAction(event, id, t.text, t.old) :
     event \in Events, id \in {0, 5},
     t \in {[text |-> Ta, old |-> <<>>], [text |-> Tb, old |-> Ta]}}

callRepair(actions, idMap) ==
  /\ call' = [fn |-> "repairInvalidActions", actions |-> actions,
              idMap |-> idMap, result |-> repairInvalidActions(actions, idMap)]
  /\ FnFrame

\* normalizeText: toLowerCase, every character outside [a-z0-9\s] becomes
\* a blank, runs of blanks collapse, trim
Lower(c) == IF c = "A" THEN "a" ELSE IF c = "B" THEN "b" ELSE c
Blanked(c) == IF c \in {"a", "b", " "} THEN c ELSE " "

RECURSIVE Collapse(_)
Collapse(s) ==
  IF Len(s) < 2 THEN s
  ELSE IF s[1] = " " /\ s[2] = " " THEN Collapse(Tail(s))
  ELSE <<s[1]>> \o Collapse(Tail(s))

RECURSIVE Trim(_)
Trim(s) ==
  IF s = <<>> THEN s
  ELSE IF s[1] = " " THEN Trim(Tail(s))
  ELSE IF s[Len(s)] = " " THEN Trim(SubSeq(s, 1, Len(s) - 1))
  ELSE s

normalizeText(value) ==
  Trim(Collapse([i \in 1..Len(value) |-> Blanked(Lower(value[i]))]))

\* String.prototype.includes
includes(text, part) ==
  \E i \in 0..(Len(text) - Len(part)) : SubSeq(text, i + 1, i + Len(part)) = part

hasTextMatch(fact, values) ==
  \E text \in values :
    \/ includes(normalizeText(text), normalizeText(fact))
    \/ includes(normalizeText(fact), normalizeText(text))

\* backfillMissingFactAdds: memoriesById after the actions from i on
RECURSIVE Simulated(_, _, _)
Simulated(actions, memoriesById, i) ==
  IF i > Len(actions) THEN memoriesById
  ELSE LET action == actions[i]
       IN IF action.event = "ADD"
            THEN Simulated(actions, memoriesById, i + 1)
          ELSE IF action.event = "DELETE"
            THEN Simulated(actions,
                           [x \in DOMAIN memoriesById \ {action.id} |->
                              memoriesById[x]], i + 1)
          ELSE Simulated(actions,
                         [x \in DOMAIN memoriesById \cup {action.id} |->
                            IF x = action.id THEN action.text
                            ELSE memoriesById[x]], i + 1)

\* new Map(existing.map(...))
ById(existing) ==
  [x \in {existing[i].id : i \in DOMAIN existing} |->
     (CHOOSE m \in SeqToSet(existing) : m.id = x).text]

addedTexts(actions) ==
  {actions[i].text : i \in {k \in DOMAIN actions : actions[k].event = "ADD"}}

finalTexts(actions, existing) ==
  LET memoriesById == Simulated(actions, ById(existing), 1)
  IN {memoriesById[x] : x \in DOMAIN memoriesById} \cup addedTexts(actions)

missingFacts(facts, texts) ==
  SelectSeq(facts, LAMBDA fact : ~hasTextMatch(fact, texts))

\* the largest id of the actions, -1 when there is none
maxId(actions) == MaxOf({actions[i].id : i \in DOMAIN actions} \cup {-1})

backfillMissingFactAdds(actions, existing, facts) ==
  LET missing == missingFacts(facts, finalTexts(actions, existing))
      autoAddedActions ==
        [k \in 1..Len(missing) |->
           MemoryAction("ADD", maxId(actions) + k, missing[k], <<>>)]
  IN IF missing = <<>> THEN actions ELSE actions \o autoAddedActions

\* the actions, memories and facts backfillMissingFactAdds is called on
TA == <<"A", "!">>
Tab == <<"a", " ", "b">>
BackfillActions ==
  {MemoryAction(event, id, text, <<>>) :
     event \in Events, id \in {0, 1}, text \in {TA, Tb}}
ExistingPools == {<<>>, <<[id |-> 0, text |-> Ta]>>}
FactPool == {Ta, Tab}

callBackfill(actions, existing, facts) ==
  /\ call' = [fn |-> "backfillMissingFactAdds", actions |-> actions,
              existing |-> existing, facts |-> facts,
              result |-> backfillMissingFactAdds(actions, existing, facts)]
  /\ FnFrame

\* ---- the answer of the LLM, as parseMemoryActions reads it ----
\* A JSON answer is the array under "memory"; any other answer is its lines.
\* A line, an id and a text are sequences of tokens; Absent is a key the
\* JSON object does not have.
Absent == <<"absent">>
Entry(event, id, text, old) ==
  [event |-> event, id |-> id, text |-> text, old_memory |-> old]

toUpperCase(part) ==
  [i \in DOMAIN part |->
     IF part[i] = "add" THEN "ADD"
     ELSE IF part[i] = "delete" THEN "DELETE" ELSE part[i]]

\* String.prototype.split('|')
RECURSIVE split(_)
split(row) ==
  IF "|" \notin SeqToSet(row) THEN <<row>>
  ELSE LET i == CHOOSE k \in DOMAIN row :
                  row[k] = "|" /\ \A j \in 1..(k - 1) : row[j] # "|"
       IN <<SubSeq(row, 1, i - 1)>> \o split(SubSeq(row, i + 1, Len(row)))

\* "fence" is the token of a line that starts a code fence
normalizeLines(lines) ==
  SelectSeq([i \in DOMAIN lines |-> Trim(lines[i])],
            LAMBDA line : line # <<>> /\ line[1] # "fence")

\* one row of the pipe form: [ok |-> FALSE] is the null the filter removes
parseRow(row) ==
  LET parts == [i \in DOMAIN split(row) |-> Trim(split(row)[i])]
      e == toUpperCase(parts[1])
  IN IF Len(parts) < 3 THEN [ok |-> FALSE]
     ELSE IF e \notin {<<ev>> : ev \in Events} THEN [ok |-> FALSE]
     ELSE IF parts[2] = <<>> THEN [ok |-> FALSE]
     ELSE [ok |-> TRUE,
           action |-> Entry(e[1], parts[2], parts[3],
                            IF Len(parts) > 3 /\ parts[4] # <<>>
                              THEN parts[4] ELSE Absent)]

parseMemoryActions(raw) ==
  IF raw.form = "json" THEN raw.memory
  ELSE LET rows == normalizeLines(raw.lines)
           parsed == SelectSeq([i \in DOMAIN rows |-> parseRow(rows[i])],
                               LAMBDA a : a.ok)
       IN [i \in DOMAIN parsed |-> parsed[i].action]

\* MemoryUpdateItemSchema: id and text are required strings, event is one
\* of the four (NONE when absent), old_memory is optional
SchemaAccepts(entry) ==
  /\ entry.id # Absent
  /\ entry.text # Absent
  /\ entry.event \in Events \cup {"absent"}

MemoryUpdateSchemaParse(entries) ==
  IF \E i \in DOMAIN entries : ~SchemaAccepts(entries[i])
    THEN [threw |-> TRUE, actions |-> <<>>]
  ELSE [threw |-> FALSE,
        actions |-> [i \in DOMAIN entries |->
                       [entries[i] EXCEPT !.event =
                          IF @ = "absent" THEN "NONE" ELSE @]]]

\* run(attempt) of generateActions, from the raw answer on
runAttempt(raw) == MemoryUpdateSchemaParse(parseMemoryActions(raw))

\* the valid actions, and how an answer encodes them
ValidActions ==
  {Entry(event, <<"0">>, <<"t">>, old) :
     event \in {"ADD", "DELETE"}, old \in {Absent, <<"t">>}}
PipeLine(a) ==
  <<a.event, "|">> \o a.id \o <<"|">> \o a.text \o
  (IF a.old_memory = Absent THEN <<>> ELSE <<"|">> \o a.old_memory)
Encoded(actions, form) ==
  IF form = "json" THEN [form |-> "json", memory |-> actions]
  ELSE [form |-> "pipe", lines |-> [i \in DOMAIN actions |-> PipeLine(actions[i])]]

\* the entries and lines of the answers parseMemoryActions is called on
JsonEntries ==
  ValidActions \cup
  {Entry("MERGE", <<"0">>, <<"t">>, Absent), Entry("ADD", Absent, <<"t">>, Absent),
   Entry("absent", <<"0">>, <<"t">>, Absent)}
PipeLines ==
  {PipeLine(a) : a \in ValidActions} \cup
  {<<" ", "add", " ", "|", "0", "|", "t">>, <<"MERGE", "|", "0", "|", "t">>,
   <<"ADD", "|", "|", "t">>, <<"ADD", "|", "0">>, <<"fence", "json">>}
RawAnswers ==
  {[form |-> "json", memory |-> m] : m \in BoundedSeq(JsonEntries, MaxList)} \cup
  {[form |-> "pipe", lines |-> l] : l \in BoundedSeq(PipeLines, MaxList)}

callParse(raw) ==
  /\ call' = [fn |-> "parseMemoryActions", raw |-> raw, result |-> runAttempt(raw)]
  /\ FnFrame

InitActions == Init /\ maidId = "chat" /\ sessionId = NoSession

\* one helper is called, once, on any of its inputs
NextActions ==
  /\ FnIdle
  /\ \/ \E actions \in BoundedSeq(RepairActions, MaxList), idMap \in {{0}, {}} :
          callRepair(actions, idMap)
     \/ \E actions \in BoundedSeq(BackfillActions, MaxFacts),
           existing \in ExistingPools, facts \in BoundedSeq(FactPool, MaxFacts) :
          callBackfill(actions, existing, facts)
     \/ \E raw \in RawAnswers : callParse(raw)

SpecActions == InitActions /\ [][NextActions]_vars

\* the invalid actions of a list whose old_memory is the text of a NONE
\* action of a nearby memory, and the NONE actions they name
Reattachable(actions, idMap) ==
  {i \in DOMAIN actions :
     /\ Invalid(actions[i], idMap)
     /\ actions[i].old_memory # <<>>
     /\ actions[i].old_memory \in DOMAIN noneActionsByText(actions, idMap)}
Targets(actions, idMap) ==
  {j \in DOMAIN actions :
     /\ actions[j].event = "NONE"
     /\ actions[j].id \in idMap
     /\ \E i \in Reattachable(actions, idMap) :
          actions[i].old_memory = actions[j].text}

\* C33: repairInvalidActions drops every UPDATE or DELETE action whose id
\* is unknown and whose old_memory is the text of a NONE action, a NONE
\* action with that text takes over its event (and its text for UPDATE), and
\* every other action of the list is returned unchanged.
C33_RepairKeepsOthers ==
  call.fn = "repairInvalidActions" =>
    LET actions == call.actions
        idMap == call.idMap
        result == call.result
    IN /\ \A i \in Reattachable(actions, idMap) :
            /\ actions[i] \notin SeqToSet(result)
            /\ \E k \in DOMAIN result :
                 /\ result[k].id \in idMap
                 /\ result[k].event = actions[i].event
                 /\ result[k].old_memory = actions[i].old_memory
                 /\ actions[i].event = "UPDATE" => result[k].text = actions[i].text
       /\ \A j \in DOMAIN actions \ (Reattachable(actions, idMap)
                                       \cup Targets(actions, idMap)) :
            actions[j] \in SeqToSet(result)
       /\ Len(result) = Len(actions) - Cardinality(Reattachable(actions, idMap))

\* applyActions on the texts of the nearby memories: a NONE action and an
\* UPDATE or DELETE of an unknown id change nothing
RECURSIVE Applied(_, _, _)
Applied(actions, memoriesById, i) ==
  IF i > Len(actions) THEN memoriesById
  ELSE LET action == actions[i]
       IN IF action.event = "DELETE" /\ action.id \in DOMAIN memoriesById
            THEN Applied(actions,
                         [x \in DOMAIN memoriesById \ {action.id} |->
                            memoriesById[x]], i + 1)
          ELSE IF action.event = "UPDATE" /\ action.id \in DOMAIN memoriesById
            THEN Applied(actions,
                         [memoriesById EXCEPT ![action.id] = action.text], i + 1)
          ELSE Applied(actions, memoriesById, i + 1)

appliedTexts(actions, existing) ==
  LET memoriesById == Applied(actions, ById(existing), 1)
  IN {memoriesById[x] : x \in DOMAIN memoriesById} \cup addedTexts(actions)

\* C34: after backfillMissingFactAdds every fact matches (its normalized
\* form is part of, or contains, the normalized text of) some memory of the
\* set the returned actions produce when they are applied; every automatic
\* ADD has an id above every id of the list it was given, and the automatic
\* ADDs have pairwise distinct ids.
C34_BackfillCoversFacts ==
  call.fn = "backfillMissingFactAdds" =>
    LET result == call.result
        n == Len(call.actions)
    IN /\ \A i \in DOMAIN call.facts :
            hasTextMatch(call.facts[i], appliedTexts(result, call.existing))
       /\ \A k \in (n + 1)..Len(result) :
            /\ result[k].event = "ADD"
            /\ \A j \in 1..n : result[k].id > call.actions[j].id
       /\ \A k, l \in (n + 1)..Len(result) :
            k # l => result[k].id # result[l].id

\* C35: an answer that encodes a list of valid actions, as JSON or as
\* pipe-delimited lines, is parsed to that list; an entry with an unknown
\* event or without an id is left out of the list, and the attempt does not
\* throw.
C35_ParseRoundTrip ==
  call.fn = "parseMemoryActions" =>
    /\ \A form \in {"json", "pipe"}, actions \in BoundedSeq(ValidActions, MaxList) :
         call.raw = Encoded(actions, form) =>
           ~call.result.threw /\ call.result.actions = actions
    /\ ~call.result.threw
    /\ \A i \in DOMAIN call.result.actions :
         /\ call.result.actions[i].event \in Events
         /\ call.result.actions[i].id \notin {Absent, <<>>}

====
